---------------------------- MODULE Spec2Model ----------------------------
(***************************************************************************)
(* A model of CoverMonkey's coverage engine (src/src/Coverage.js):         *)
(* the trace tokenizer (Parser.processLine), the Script builder, the       *)
(* reachability analysis, the per-line aggregation (Line.counts,           *)
(* Line.coverage, File.coverage) and the stateful diff of parseData.       *)
(*                                                                         *)
(* Text is modelled by what the regular expressions of the source extract  *)
(* from it.  A trace line is a record whose kind says which pattern of     *)
(* the source it matches; an assembly text is the record                   *)
(*   [op |-> first word, arg |-> the number after it (after the word     *)
(*    "offset" for a switch), tail |-> the tab-led continuation lines      *)
(*    appended to it, each [label |-> the number the line starts with,     *)
(*    off |-> the number it ends with after ": "]].                        *)
(* A JavaScript exception (a TypeError on undefined) is the flag err.      *)
(***************************************************************************)
EXTENDS Integers, Sequences, FiniteSets, TLC

VARIABLES
    filenames,   \* Coverage.filenames: filename -> stored file snapshot
    data,        \* Coverage.data
    listeners,   \* Coverage._listeners, in registration order
    trace,       \* the rawdata of the last parseData call (sequence of lines)
    events,      \* the _trigger calls of the last parseData call, in order
    delivered,   \* the handler invocations of the last parseData call
    threw,       \* whether the last parseData call raised
    built,       \* the files whose filedata the last parseData call built
    before,      \* Coverage.filenames as the last parseData call found it
    nested,      \* the parseData calls made by a handler during the last call
    removed,     \* the observers removeListener took out, not registered since
    heard,       \* _listeners and removed as the last parseData call found them
    audience,    \* _listeners as each _trigger call of the last call found it
    rscript,     \* reachability: the Script under analysis
    rpc,         \* reachability: "idle" | "built" | "done"
    rmarks,      \* reachability: the indices marked reachable, in order
    parser,      \* tokenizer: the Parser object
    input,       \* tokenizer: the lines still to be fed to processLine
    fed,         \* tokenizer: the lines fed so far
    lfile,       \* line aggregation: the File that holds the line classified
    lresult,     \* line aggregation: what counts, coverage and File.coverage gave
    lpc          \* line aggregation: "idle" | "built" | "counted" | "classed" | "done"

vars == <<filenames, data, listeners, trace, events, delivered,
          threw, built, before, nested, removed, heard, audience,
          rscript, rpc, rmarks, parser,
          input, fed,
          lfile, lresult, lpc>>

engineVars == <<filenames, data, listeners, trace, events,
                delivered, threw, built, before, nested, removed, heard,
                audience>>
reachVars == <<rscript, rpc, rmarks>>
parseVars == <<parser, input, fed>>
lineVars == <<lfile, lresult, lpc>>

-----------------------------------------------------------------------------
(* JavaScript values *)

\* undefined / null / a failed regular-expression match, where a number is expected
Undefined == -1

\* Infinity, the initial value of min in Line.counts
Infinity == -2

MathMin(a, b) == IF a = Infinity THEN b ELSE IF b = Infinity THEN a
                 ELSE IF a < b THEN a ELSE b
MathMax(a, b) == IF a > b THEN a ELSE b

-----------------------------------------------------------------------------
(* Trace lines *)

Asm(op, arg, tail) == [op |-> op, arg |-> arg, tail |-> tail]

\* "--- SCRIPT <file>:<line> ---"
StartLine(f, n) == [kind |-> "start", file |-> f, line |-> n]
\* "--- END SCRIPT ..."
EndLine == [kind |-> "end"]
\* "main:"
MainLine == [kind |-> "main"]
\* "<pc>:<n>/<n>/<n>...  x  <srcline>  <assembly>"
DataLine(pc, cnt, srcline, asm) ==
    [kind |-> "data", pc |-> pc, cnt |-> cnt, srcline |-> srcline, asm |-> asm]
\* "\t<case>: <offset>"; label is Undefined when <case> is not a numeral
ContLine(label, off) == [kind |-> "cont", label |-> label, off |-> off]

\* the text of a continuation line as it is appended to an assembly
Case(label, off) == [label |-> label, off |-> off]
\* anything else
OtherLine == [kind |-> "other"]

-----------------------------------------------------------------------------
(* Script builder *)

NewScript == [filename |-> "", startline |-> Undefined, name |-> <<"", Undefined>>,
              entrypoint |-> Undefined, opcodes |-> <<>>, err |-> FALSE]

\* lambda and deflocalfun lose the function source that follows the mnemonic
Shorten(asm) ==
    IF asm.op \in {"lambda", "deflocalfun"} /\ asm.arg # Undefined
    THEN Asm(asm.op, Undefined, <<>>)
    ELSE asm

NewOpcode(l) ==
    [pc |-> l.pc,
     count |-> l.cnt[1] + l.cnt[2] + l.cnt[3],
     srcline |-> l.srcline,
     assembly |-> Shorten(l.asm),
     reachable |-> FALSE, fallsthrough |-> FALSE, entrypoint |-> FALSE]

\* the body of the forEach of Script's constructor, for one line
ScriptLine(s, l) ==
    IF s.err THEN s
    ELSE CASE l.kind = "start" ->
                [s EXCEPT !.filename = l.file, !.startline = l.line,
                          !.name = <<l.file, l.line>>]
           [] l.kind = "end" -> s
           [] l.kind = "main" -> [s EXCEPT !.entrypoint = Len(s.opcodes)]
           [] l.kind = "data" -> [s EXCEPT !.opcodes = Append(@, NewOpcode(l))]
           [] l.kind = "cont" ->
                IF s.opcodes = <<>>
                THEN [s EXCEPT !.err = TRUE]   \* opcodes[-1].assembly
                ELSE [s EXCEPT !.opcodes[Len(s.opcodes)].assembly.tail =
                                   Append(@, Case(l.label, l.off))]
           [] OTHER -> s

RECURSIVE BuildFrom(_, _)
BuildFrom(s, lines) ==
    IF lines = <<>> THEN s ELSE BuildFrom(ScriptLine(s, Head(lines)), Tail(lines))

Script(lines) == BuildFrom(NewScript, lines)

\* script.pcToOpcodeIndex[pc]: the 0-based index of the last opcode registered
\* with that address, Undefined when there is none
PcToOpcodeIndex(ops, pc) ==
    LET hits == {i \in 1..Len(ops) : ops[i].pc = pc}
    IN IF hits = {} THEN Undefined
       ELSE (CHOOSE i \in hits : \A j \in hits : j <= i) - 1

\* Script.prototype.toString: name ":" entrypoint "\n" then one
\* "pc:srcline:assembly" per opcode.  No part holds a line break and pc,
\* srcline and entrypoint are numerals, so two texts are equal exactly when
\* these tuples are.
ScriptToString(s) ==
    <<s.name, s.entrypoint,
      [i \in 1..Len(s.opcodes) |->
          <<s.opcodes[i].pc, s.opcodes[i].srcline, s.opcodes[i].assembly>>]>>

\* the counts of that written over those of this
AddCountsAssign(this, that) ==
    [this EXCEPT !.opcodes =
        [i \in 1..Len(this.opcodes) |->
            [this.opcodes[i] EXCEPT !.count = that.opcodes[i].count]]]

\* Script.prototype.addCounts
AddCounts(this, that) ==
    [this EXCEPT !.opcodes =
        [i \in 1..Len(this.opcodes) |->
            [this.opcodes[i] EXCEPT !.count = @ + that.opcodes[i].count]]]


-----------------------------------------------------------------------------
(* Reachability analysis *)

\* the property names every object literal inherits from Object.prototype
ObjectPrototype ==
    {"constructor", "toString", "toLocaleString", "valueOf", "hasOwnProperty",
     "isPrototypeOf", "propertyIsEnumerable", "__proto__", "__defineGetter__",
     "__defineSetter__", "__lookupGetter__", "__lookupSetter__"}

\* the operator in on an object literal whose own keys are own: true of an
\* own key and of an inherited one
In(k, own) == k \in own \/ k \in ObjectPrototype

switches == {"tableswitch", "lookupswitch", "tableswitchx", "lookupswitchx"}

terminators == {"stop", "return", "throw", "retrval", "retsub"}

unconditionals == {"goto", "gotox", "default", "defaultx", "filter"}

conditionals == {"ifeq", "ifeqx", "ifne", "ifnex", "or", "orx", "and", "andx",
                 "gosub", "gosubx", "case", "casex", "ifcantcalltop",
                 "endfilter", "try"}

nonlinear == terminators \cup switches \cup conditionals \cup unconditionals

linear(op) == ~In(op, nonlinear)

\* what /^\w+\s+(\d+)/ captures in an assembly: the number that follows the
\* mnemonic on the instruction line; when the mnemonic stands alone, the
\* numeral that leads the first continuation line appended to it, the tab
\* being white space; nothing in a switch, whose mnemonic is followed by the
\* word "offset"
BranchAddress(assembly) ==
    IF In(assembly.op, switches) /\ assembly.arg # Undefined THEN Undefined
    ELSE IF assembly.arg # Undefined THEN assembly.arg
    ELSE IF assembly.tail # <<>> THEN assembly.tail[1].label
    ELSE Undefined

\* branchIndex: the index of the opcode at the address captured; Undefined
\* when there is no match or no opcode has that address
branchIndex(ops, assembly) ==
    IF BranchAddress(assembly) = Undefined THEN Undefined
    ELSE PcToOpcodeIndex(ops, BranchAddress(assembly))

\* The while loop of reachable, entered at 0-based index i < Len(ops):
\* how = "seen" (returned on an opcode already reachable), "end" (ran off the
\* end of the script) or "branch" (broke out on the non-linear opcode at idx);
\* marks lists the indices on which opcode.reachable = true was executed
RECURSIVE Walk(_, _)
Walk(ops, i) ==
    IF i >= Len(ops)
    THEN [ops |-> ops, idx |-> i, how |-> "end", marks |-> <<>>]
    ELSE IF ops[i + 1].reachable
    THEN [ops |-> ops, idx |-> i, how |-> "seen", marks |-> <<>>]
    ELSE LET marked == [ops EXCEPT ![i + 1].reachable = TRUE]
         IN IF ~linear(ops[i + 1].assembly.op)
            THEN [ops |-> marked, idx |-> i, how |-> "branch", marks |-> <<i>>]
            ELSE LET w == Walk([marked EXCEPT ![i + 1].fallsthrough = TRUE],
                               i + 1)
                 IN [w EXCEPT !.marks = <<i>> \o @]

RECURSIVE reachable(_, _)
RECURSIVE SwitchCases(_, _, _)

\* the loop over the case lines with each offset taken as an address
RECURSIVE SwitchCasesAbsolute(_, _, _)
SwitchCasesAbsolute(st, pc, cases) ==
    IF st.err \/ cases = <<>> THEN st
    ELSE IF Head(cases).off = Undefined THEN [st EXCEPT !.err = TRUE]
    ELSE SwitchCasesAbsolute(
             reachable(st, PcToOpcodeIndex(st.ops, Head(cases).off)),
             pc, Tail(cases))

\* the for loop over the case lines of a switch at address pc
SwitchCases(st, pc, cases) ==
    IF st.err \/ cases = <<>> THEN st
    ELSE IF Head(cases).off = Undefined THEN [st EXCEPT !.err = TRUE]
    ELSE SwitchCases(
             reachable(st, PcToOpcodeIndex(st.ops, pc + Head(cases).off)),
             pc, Tail(cases))

\* reachable(script, opcodeIndex); st = [ops, marks, err], err once an
\* exception is raised (ops then holds the marks made before it)
reachable(st, opcodeIndex) ==
    IF st.err THEN st
    ELSE IF opcodeIndex = Undefined \/ opcodeIndex >= Len(st.ops)
    THEN [st EXCEPT !.err = TRUE]          \* opcode.entrypoint on undefined
    ELSE
      LET w == Walk([st.ops EXCEPT ![opcodeIndex + 1].entrypoint = TRUE],
                    opcodeIndex)
          s1 == [st EXCEPT !.ops = w.ops, !.marks = @ \o w.marks]
          opcode == w.ops[w.idx + 1]
          op == opcode.assembly.op
      IN IF w.how # "branch" THEN s1
         ELSE IF In(op, terminators) THEN s1
         ELSE IF In(op, unconditionals)
         THEN reachable(s1, branchIndex(s1.ops, opcode.assembly))
         ELSE IF In(op, conditionals)
         THEN LET s2 == reachable(s1, w.idx + 1)
                  branch == branchIndex(s1.ops, opcode.assembly)
              IN IF s2.err THEN s2
                 ELSE IF branch # Undefined /\ branch # 0
                 THEN reachable(s2, branch)
                 ELSE s2
         ELSE \* op in switches
              IF opcode.assembly.arg = Undefined
              THEN [s1 EXCEPT !.err = TRUE]   \* no "ffset <n>" to match
              ELSE SwitchCases(
                     reachable(s1, PcToOpcodeIndex(s1.ops,
                                       opcode.pc + opcode.assembly.arg)),
                     opcode.pc, opcode.assembly.tail)

\* Script.prototype.checkReachability
checkReachability(s) ==
    LET r == reachable([ops |-> s.opcodes, marks |-> <<>>, err |-> FALSE], 0)
    IN [s EXCEPT !.opcodes = r.ops, !.err = r.err]

\* the indices checkReachability marks reachable on s, in the order of the
\* assignments
MarksOf(s) ==
    reachable([ops |-> s.opcodes, marks |-> <<>>, err |-> FALSE], 0).marks


-----------------------------------------------------------------------------
(* Trace tokenizer *)

NewParser == [inscript |-> FALSE, scriptlines |-> <<>>, scripts |-> <<>>,
              scriptMap |-> <<>>, err |-> FALSE]

\* the three first lines whose records are skipped:
\* "--- SCRIPT (null):0 ---", "--- SCRIPT :0 ---", "--- SCRIPT -e:1 ---"
Sentinels == {StartLine("(null)", 0), StartLine("", 0), StartLine("-e", 1)}

\* scriptMap is kept as the sequence of the signatures registered, the i-th
\* being that of scripts[i]
Existing(p, string) ==
    LET hits == {i \in 1..Len(p.scriptMap) : p.scriptMap[i] = string}
    IN IF hits = {} THEN 0 ELSE CHOOSE i \in hits : TRUE

\* the record just closed: merge it into the script of the same signature,
\* or analyse and register it
CloseScript(p, lines) ==
    LET script == Script(lines)
        string == ScriptToString(script)
        existing == Existing(p, string)
        checked == checkReachability(script)
    IN IF script.err THEN [p EXCEPT !.err = TRUE]
       ELSE IF existing # 0
       THEN [p EXCEPT !.scripts[existing] = AddCounts(@, script)]
       ELSE IF checked.err THEN [p EXCEPT !.err = TRUE]
       ELSE [p EXCEPT !.scripts = Append(@, checked),
                      !.scriptMap = Append(@, string)]

\* Parser.prototype.processLine
processLine(p, dataline) ==
    IF p.err THEN p
    ELSE IF p.inscript
    THEN LET lines == Append(p.scriptlines, dataline)
             pushed == [p EXCEPT !.scriptlines = lines]
         IN IF dataline.kind = "end"
            THEN LET closed == IF lines[1] \notin Sentinels
                               THEN CloseScript(pushed, lines)
                               ELSE pushed
                 IN IF closed.err THEN closed
                    ELSE [closed EXCEPT !.scriptlines = <<>>, !.inscript = FALSE]
            ELSE pushed
    ELSE IF dataline.kind = "start"
         THEN [p EXCEPT !.inscript = TRUE, !.scriptlines = <<dataline>>]
         ELSE p

\* lines.forEach(function(line) { parser.processLine(line); })
RECURSIVE ParseLines(_, _)
ParseLines(p, lines) ==
    IF lines = <<>> THEN p
    ELSE ParseLines(processLine(p, Head(lines)), Tail(lines))


-----------------------------------------------------------------------------
(* Line aggregator: File and Line *)

\* a JavaScript object or sparse array as a function on the keys it holds
EmptyMap == [k \in {} |-> FALSE]
Put(m, k, v) == [x \in DOMAIN m \cup {k} |-> IF x = k THEN v ELSE m[x]]

\* a Line as its constructor leaves it; _counts, which counts() reads before
\* the constructor or anything else has assigned it, is undefined
NewLine == [opcodes |-> <<>>, startFunc |-> FALSE, endFunc |-> FALSE,
            _counts |-> [defined |-> FALSE, list |-> <<>>]]

\* File.prototype.line
FileLine(file, linenum) ==
    IF linenum \in DOMAIN file THEN file ELSE Put(file, linenum, NewLine)

\* Line.prototype.addOpcode: the first opcode registered under a key stays
addOpcode(line, key, opcode) ==
    IF \E i \in 1..Len(line.opcodes) : line.opcodes[i].key = key
    THEN line
    ELSE [line EXCEPT !.opcodes = Append(@, [key |-> key, opcode |-> opcode])]

\* script.opcodes.forEach(... file.line(opcode.srcline).addOpcode(...))
RECURSIVE AddOpcodes(_, _, _)
AddOpcodes(file, name, ops) ==
    IF ops = <<>> THEN file
    ELSE LET o == Head(ops)
             f1 == FileLine(file, o.srcline)
         IN AddOpcodes([f1 EXCEPT ![o.srcline] = addOpcode(@, <<name, o.pc>>, o)],
                       name, Tail(ops))

\* one script of the scripts.forEach of parseData, b = [files, err]: its
\* opcodes go to the lines of its file; the lines of its first and last
\* opcode are marked. A filename that files inherits without holding it
\* passes the test "filename in files": no File is created, files[filename]
\* is the inherited member and file.line(...) raises
AddScript(b, script) ==
    LET fn == script.filename
        file0 == IF fn \in DOMAIN b.files THEN b.files[fn] ELSE EmptyMap
        file1 == AddOpcodes(file0, script.name, script.opcodes)
        first == script.opcodes[1].srcline
        last == script.opcodes[Len(script.opcodes)].srcline
        file2 == [file1 EXCEPT ![first].startFunc = TRUE]
        file3 == [file2 EXCEPT ![last].endFunc = TRUE]
    IN IF b.err THEN b
       ELSE IF In(fn, DOMAIN b.files) /\ fn \notin DOMAIN b.files
       THEN [b EXCEPT !.err = TRUE]
       ELSE [b EXCEPT !.files = Put(@, fn, file3)]

\* scripts.forEach of parseData, from var files = {}
RECURSIVE BuildFiles(_, _)
BuildFiles(b, ss) ==
    IF ss = <<>> THEN b ELSE BuildFiles(AddScript(b, Head(ss)), Tail(ss))

\* rawcounts.sort(function(a,b) { return a-b; })
RECURSIVE Insert(_, _)
Insert(sorted, x) ==
    IF sorted = <<>> THEN <<x>>
    ELSE IF x < Head(sorted) THEN <<x>> \o sorted
    ELSE <<Head(sorted)>> \o Insert(Tail(sorted), x)

RECURSIVE SortNumeric(_)
SortNumeric(xs) ==
    IF xs = <<>> THEN <<>> ELSE Insert(SortNumeric(Tail(xs)), Head(xs))

\* undefined as an element of a counts array, where -1 is a count
UndefinedCount == -3

\* the loop that keeps one of each run of equal values; counts[0] =
\* rawcounts[0] is executed on the empty array too and gives [undefined]
RECURSIVE Unique(_)
Unique(xs) ==
    IF xs = <<>> THEN <<UndefinedCount>>
    ELSE IF Len(xs) = 1 THEN xs
    ELSE IF xs[1] = xs[2] THEN Unique(Tail(xs))
    ELSE <<xs[1]>> \o Unique(Tail(xs))

\* the loop of Line.counts with no count ever left out
RECURSIVE RawCountsNoSkip(_, _)
RawCountsNoSkip(acc, ops) ==
    IF ops = <<>> THEN acc
    ELSE LET opcode == Head(ops).opcode
             c == opcode.count
             next == IF opcode.reachable
                     THEN [acc EXCEPT !.min = MathMin(@, c),
                                      !.max = MathMax(@, c),
                                      !.rawcounts = Append(@, c)]
                     ELSE [acc EXCEPT !.rawcounts = Append(@, -1)]
         IN RawCountsNoSkip([next EXCEPT !.last = opcode, !.haslast = TRUE],
                            Tail(ops))

\* the loop of Line.counts leaving a count out only after the instruction
\* that stands just before it in the script
RECURSIVE RawCountsAdjacent(_, _)
RawCountsAdjacent(acc, ops) ==
    IF ops = <<>> THEN acc
    ELSE LET opcode == Head(ops).opcode
             c == opcode.count
             skip == acc.haslast /\ acc.last.fallsthrough
                     /\ acc.last.pc = opcode.pc - 1
                     /\ (c = acc.last.count \/ (c = 0 /\ acc.last.count # 0))
             next == IF opcode.reachable
                     THEN IF skip THEN acc
                          ELSE [acc EXCEPT !.min = MathMin(@, c),
                                           !.max = MathMax(@, c),
                                           !.rawcounts = Append(@, c)]
                     ELSE [acc EXCEPT !.rawcounts = Append(@, -1)]
         IN RawCountsAdjacent([next EXCEPT !.last = opcode, !.haslast = TRUE],
                              Tail(ops))

\* the for loop of Line.counts over the opcodes of the line, in the order
\* they were registered; acc = [min, max, rawcounts, last, haslast]
RECURSIVE RawCounts(_, _)
RawCounts(acc, ops) ==
    IF ops = <<>> THEN acc
    ELSE LET opcode == Head(ops).opcode
             c == opcode.count
             skip == acc.haslast /\ acc.last.fallsthrough
                     /\ (c = acc.last.count \/ (c = 0 /\ acc.last.count # 0))
             next == IF opcode.reachable
                     THEN IF skip THEN acc
                          ELSE [acc EXCEPT !.min = MathMin(@, c),
                                           !.max = MathMax(@, c),
                                           !.rawcounts = Append(@, c)]
                     ELSE [acc EXCEPT !.rawcounts = Append(@, -1)]
         IN RawCounts([next EXCEPT !.last = opcode, !.haslast = TRUE], Tail(ops))

\* counts with the lone unreachable opcode sorted like any other list
countsSorted(line) ==
    LET none == [pc |-> 0, count |-> 0, srcline |-> 0,
                 assembly |-> Asm("", Undefined, <<>>), reachable |-> FALSE,
                 fallsthrough |-> FALSE, entrypoint |-> FALSE]
        acc == RawCounts([min |-> Infinity, max |-> 0, rawcounts |-> <<>>,
                          last |-> none, haslast |-> FALSE], line.opcodes)
    IN IF acc.min = acc.max /\ acc.min >= 0
       THEN [defined |-> TRUE, list |-> <<acc.min>>]
       ELSE [defined |-> TRUE, list |-> Unique(SortNumeric(acc.rawcounts))]

\* Line.prototype.counts: [defined, list]; defined is FALSE when the
\* function returns undefined (no branch assigned counts). The array a call
\* has stored in this._counts is returned without looking at the opcodes
counts(line) ==
    LET none == [pc |-> 0, count |-> 0, srcline |-> 0,
                 assembly |-> Asm("", Undefined, <<>>), reachable |-> FALSE,
                 fallsthrough |-> FALSE, entrypoint |-> FALSE]
        acc == RawCounts([min |-> Infinity, max |-> 0, rawcounts |-> <<>>,
                          last |-> none, haslast |-> FALSE], line.opcodes)
    IN IF line._counts.defined THEN line._counts
       ELSE IF acc.min = acc.max /\ acc.min >= 0
       THEN [defined |-> TRUE, list |-> <<acc.min>>]
       ELSE IF Len(acc.rawcounts) = 1 /\ acc.rawcounts[1] = -1
       THEN IF line.opcodes[1].opcode.assembly = Asm("stop", Undefined, <<>>)
            THEN [defined |-> TRUE, list |-> <<>>]
            ELSE [defined |-> FALSE, list |-> <<>>]
       ELSE [defined |-> TRUE, list |-> Unique(SortNumeric(acc.rawcounts))]

\* the Line after a call of counts(): this._counts = counts
Counted(line) == [line EXCEPT !._counts = counts(line)]

\* the rawcounts array of Line.counts when its for loop ends
RawCountsOf(line) ==
    LET none == [pc |-> 0, count |-> 0, srcline |-> 0,
                 assembly |-> Asm("", Undefined, <<>>), reachable |-> FALSE,
                 fallsthrough |-> FALSE, entrypoint |-> FALSE]
    IN RawCounts([min |-> Infinity, max |-> 0, rawcounts |-> <<>>,
                  last |-> none, haslast |-> FALSE], line.opcodes).rawcounts

\* Line.prototype.coverage: [err, class]; err when counts.length is read
\* from undefined
coverage(line) ==
    LET c == counts(line)
        l == c.list
    IN IF ~c.defined THEN [err |-> TRUE, class |-> "undefined"]
       ELSE [err |-> FALSE,
             class |-> IF Len(l) = 0 THEN ""
                       ELSE IF l[1] > 0 THEN "full"
                       ELSE IF Len(l) = 1
                       THEN IF l[1] = 0 THEN "none"
                            ELSE IF l[1] = -1 THEN "dead" ELSE "undefined"
                       ELSE IF l[1] = -1 /\ l[2] > 0 THEN "full" ELSE "some"]

\* the number of lines of a File of a given class
ClassCount(file, class) ==
    Cardinality({n \in DOMAIN file : coverage(file[n]).class = class})

\* File.prototype.coverage: [err, tally]; tally = <<covered, partial,
\* uncovered, dead>>
FileCoverage(file) ==
    IF \E n \in DOMAIN file : coverage(file[n]).err
    THEN [err |-> TRUE, tally |-> <<0, 0, 0, 0>>]
    ELSE [err |-> FALSE,
          tally |-> <<ClassCount(file, "full"), ClassCount(file, "some"),
                      ClassCount(file, "none"), ClassCount(file, "dead")>>]


-----------------------------------------------------------------------------
(* Records of a dump *)

\* an instruction line whose count group is "0/c/0/7": the count is the sum
\* of the first three fields
Op(pc, c, srcline, op, arg) ==
    DataLine(pc, <<0, c, 0, 7>>, srcline, Asm(op, arg, <<>>))

\* a function of one source line n, executed c times
Plain(f, n, c) ==
    <<StartLine(f, n), MainLine,
      Op(0, c, n, "push", Undefined), Op(1, c, n, "return", Undefined), EndLine>>

\* a function of one source line n that holds a branch taken once, the
\* instruction after it, executed c times, and the return
Branchy(f, n, c) ==
    <<StartLine(f, n), MainLine,
      Op(0, 1, n, "ifeq", 2), Op(1, c, n, "push", Undefined),
      Op(2, 1, n, "return", Undefined), EndLine>>

\* a function whose line n+1 holds two unreachable instructions and whose
\* line n+2 holds only the unreachable final stop
Quirky(f, n) ==
    <<StartLine(f, n), MainLine,
      Op(0, 1, n, "return", Undefined),
      Op(1, 0, n + 1, "nop", Undefined), Op(2, 0, n + 1, "nop", Undefined),
      Op(3, 0, n + 2, "stop", Undefined), EndLine>>

\* a function whose line n+1 holds one unreachable instruction that is not stop
DeadEnd(f, n) ==
    <<StartLine(f, n), MainLine,
      Op(0, 1, n, "return", Undefined), Op(1, 0, n + 1, "nop", Undefined),
      EndLine>>

\* the interpreter's dummy record
Dummy ==
    <<StartLine("(null)", 0), MainLine, Op(0, 1, 1, "stop", Undefined), EndLine>>

RECURSIVE Concat(_)
Concat(ss) == IF ss = <<>> THEN <<>> ELSE Head(ss) \o Concat(Tail(ss))

-----------------------------------------------------------------------------
(* Coverage engine *)

\* the observers of the model and the handlers each implements; the
\* onNewScript handler of "reenter" calls parseData on the Coverage object
\* that notified it, that of "once" calls removeListener on itself and that
\* of "recruit" calls addListener(Recruited) unless it is registered
HandlersOf(l) ==
    CASE l = "all" -> {"onNewScript", "onScriptUpdate", "onLineUpdate"}
      [] l = "lines" -> {"onLineUpdate"}
      [] l = "reenter" -> {"onNewScript"}
      [] l = "once" -> {"onNewScript"}
      [] l = "recruit" -> {"onNewScript"}
      [] OTHER -> {}

\* this._listeners.indexOf(l), from 1; 0 when l is not registered
IndexOf(ls, l) ==
    IF \E i \in 1..Len(ls) : ls[i] = l
    THEN CHOOSE i \in 1..Len(ls) : ls[i] = l /\ \A j \in 1..(i - 1) : ls[j] # l
    ELSE 0

\* this._listeners.splice(idx, 1)
Splice(ls, idx) == SubSeq(ls, 1, idx - 1) \o SubSeq(ls, idx + 1, Len(ls))

\* the observers registered
Registered(ls) == {ls[i] : i \in 1..Len(ls)}

\* Coverage.prototype.addListener, on the array _listeners
addListener(ls, l) == Append(ls, l)

\* Coverage.prototype.removeListener, on the array _listeners
removeListener(ls, l) ==
    IF IndexOf(ls, l) # 0 THEN Splice(ls, IndexOf(ls, l)) ELSE ls

\* the observer the handler of "recruit" registers
Recruited == "all"

\* the calls the handler of l for ev makes on the Coverage object that
\* notified it, parseData apart
Handler(e, l, ev) ==
    CASE l = "once" -> [e EXCEPT !.listeners = removeListener(@, l)]
      [] l = "recruit" ->
            IF Recruited \in Registered(e.listeners) THEN e
            ELSE [e EXCEPT !.listeners = addListener(@, Recruited)]
      [] OTHER -> e

Event(type, filename, line, site) ==
    [type |-> type, filename |-> filename, line |-> line, site |-> site]

\* the file whose onNewScript makes the handler of "reenter" call parseData
ReenterFile == "a"

\* whether the handler of l for ev calls parseData
Reenters(l, ev) ==
    l = "reenter" /\ ev.type = "onNewScript" /\ ev.filename = ReenterFile

\* a forEach of _trigger that ends at the first listener without the handler
RECURSIVE DeliverUntilMissing(_, _, _, _)
DeliverUntilMissing(e, k, len, ev) ==
    IF k >= len \/ k >= Len(e.listeners) \/ e.err
       \/ ev.type \notin HandlersOf(e.listeners[k + 1])
    THEN e
    ELSE LET l == e.listeners[k + 1]
             told == Handler([e EXCEPT !.delivered =
                                          Append(@, [to |-> l, ev |-> ev])],
                             l, ev)
         IN IF Reenters(l, ev)
            THEN [told EXCEPT !.pending =
                                  <<[next |-> k + 1, len |-> len, ev |-> ev]>>]
            ELSE DeliverUntilMissing(told, k + 1, len, ev)

\* the forEach of _trigger from index k on, len being the length of
\* _listeners when it started: e = [filenames, listeners, events, audience,
\* delivered, built, nested, pending, inner, err]. forEach visits the
\* indexes below len that the array holds when it comes to them, and reads
\* the element then. A handler that raises ends it; at a handler that calls
\* parseData it stops with pending holding the index to go on from
RECURSIVE Deliver(_, _, _, _)
Deliver(e, k, len, ev) ==
    IF k >= len \/ e.err THEN e
    ELSE IF k >= Len(e.listeners) THEN Deliver(e, k + 1, len, ev)
    ELSE IF ev.type \notin HandlersOf(e.listeners[k + 1])
    THEN Deliver(e, k + 1, len, ev)
    ELSE LET l == e.listeners[k + 1]
             told == Handler([e EXCEPT !.delivered =
                                          Append(@, [to |-> l, ev |-> ev])],
                             l, ev)
         IN IF Reenters(l, ev)
            THEN [told EXCEPT !.pending =
                                  <<[next |-> k + 1, len |-> len, ev |-> ev]>>]
            ELSE Deliver(told, k + 1, len, ev)

\* Coverage.prototype._trigger
Trigger(e, ev) ==
    Deliver([e EXCEPT !.events = Append(@, ev),
                      !.audience = Append(@, e.listeners)],
            0, Len(e.listeners), ev)

\* the filenames of the model in the order of Array.prototype.sort
FileOrder == <<"a", "b">>

\* filenames.sort()
SortedNames(files) ==
    SelectSeq(FileOrder, LAMBDA f : f \in DOMAIN files)

\* the length of a sparse array: one more than its largest index
ArrayLength(m) ==
    LET idx == {i \in DOMAIN m : i >= 0}
    IN IF idx = {} THEN 0 ELSE 1 + CHOOSE i \in idx : \A j \in idx : j <= i

\* the line data built for one Line (the body of the for-in of parseData)
LineData(line) ==
    [coverage |-> coverage(line).class, counts |-> counts(line).list,
     startFunc |-> line.startFunc, endFunc |-> line.endFunc]

\* the filedata object built for one File
FileData(filename, file) ==
    LET cov == FileCoverage(file).tally
    IN [filename |-> filename,
        covered |-> cov[1], partial |-> cov[2], uncovered |-> cov[3],
        dead |-> cov[4],
        lines |-> [i \in {n - 1 : n \in DOMAIN file} |-> LineData(file[i + 1])]]

\* equalArrays
equalArrays(a, b) ==
    Len(a) = Len(b) /\ \A i \in 1..Len(a) : a[i] = b[i]

\* counts written over the stored ones only when the new ones are larger
OverwriteIfLarger(oldline, newline) ==
    [oldline EXCEPT !.coverage = newline.coverage,
                    !.counts = IF Len(newline.counts) >= Len(@)
                                  /\ \A k \in 1..Len(@) : newline.counts[k] >= @[k]
                               THEN newline.counts ELSE @]

\* oldline.coverage = newline.coverage; oldline.counts = newline.counts
Overwrite(oldline, newline) ==
    [oldline EXCEPT !.coverage = newline.coverage, !.counts = newline.counts]

\* the event of the first site of the loop with the array index in place of
\* the line number
AdoptedAtIndex(filename, i) == Event("onLineUpdate", filename, i, "adopt")

\* the event of the first site of the loop, for the line adopted at array
\* index i: _trigger("onLineUpdate", filename, i+1, newline)
Adopted(filename, i) == Event("onLineUpdate", filename, i + 1, "adopt")

\* the for loop over filedata.lines from index i on; an index the stored
\* snapshot does not hold is adopted and notified, and the comparison that
\* follows then reads oldline.coverage on undefined
RECURSIVE LineLoop(_, _, _, _)
LineLoop(e, filename, filedata, i) ==
    IF e.err \/ i >= ArrayLength(filedata.lines) THEN e
    ELSE IF i \notin DOMAIN filedata.lines
    THEN LineLoop(e, filename, filedata, i + 1)
    ELSE
      LET newline == filedata.lines[i]
          olddata == e.filenames[filename]
      IN IF i \notin DOMAIN olddata.lines
         THEN LET adopted == [e EXCEPT !.filenames[filename].lines =
                                           Put(@, i, newline)]
                  told == Trigger(adopted, Adopted(filename, i))
              IN [told EXCEPT !.err = TRUE]
         ELSE LET oldline == olddata.lines[i]
              IN IF newline.coverage # oldline.coverage
                    \/ ~equalArrays(newline.counts, oldline.counts)
                 THEN LineLoop(
                        Trigger([e EXCEPT !.filenames[filename].lines[i] =
                                              Overwrite(oldline, newline)],
                                Event("onLineUpdate", filename, i, "change")),
                        filename, filedata, i + 1)
                 ELSE LineLoop(e, filename, filedata, i + 1)

\* the rescan of the stored lines array for one class
Rescan(lines, class) ==
    Cardinality({i \in DOMAIN lines :
                    i >= 0 /\ i < ArrayLength(lines) /\ lines[i].coverage = class})

\* the tallies recomputed from the stored snapshot, stored and notified
\* when one of them changed
Retally(e, filename) ==
    LET olddata == e.filenames[filename]
        newcovered == Rescan(olddata.lines, "full")
        newpartial == Rescan(olddata.lines, "some")
        newuncovered == Rescan(olddata.lines, "none")
        newdead == Rescan(olddata.lines, "dead")
    IN IF newcovered # olddata.covered \/ newpartial # olddata.partial
          \/ newuncovered # olddata.uncovered \/ newdead # olddata.dead
       THEN Trigger([e EXCEPT !.filenames[filename].covered = newcovered,
                              !.filenames[filename].partial = newpartial,
                              !.filenames[filename].uncovered = newuncovered,
                              !.filenames[filename].dead = newdead],
                    Event("onScriptUpdate", filename, Undefined, "tally"))
       ELSE e

\* the part of the body of filenames.forEach that does not read the stored
\* state: [filename, err, filedata], err when file.coverage() raised
Fresh(filename, file) ==
    IF FileCoverage(file).err
    THEN [filename |-> filename, err |-> TRUE, filedata |-> EmptyMap]
    ELSE [filename |-> filename, err |-> FALSE,
          filedata |-> FileData(filename, file)]

\* the body of filenames.forEach for one file, given its fresh snapshot;
\* built records the files whose filedata was built
ReconcileFile(e, fresh) ==
    IF e.err THEN e
    ELSE IF fresh.err THEN [e EXCEPT !.err = TRUE]
    ELSE LET e1 == [e EXCEPT !.built = @ \cup {fresh.filename}]
         IN IF ~In(fresh.filename, DOMAIN e.filenames)
            THEN Trigger([e1 EXCEPT !.filenames =
                                       Put(@, fresh.filename, fresh.filedata)],
                         Event("onNewScript", fresh.filename, Undefined, "new"))
            ELSE IF fresh.filename \notin DOMAIN e.filenames
            THEN [e1 EXCEPT !.err = TRUE]  \* olddata.lines[i] on undefined
            ELSE LET looped == LineLoop(e1, fresh.filename, fresh.filedata, 0)
                 IN IF looped.err THEN looped
                    ELSE Retally(looped, fresh.filename)

\* the first half of parseData, which reads only rawdata: the scripts
\* parsed, the File objects built from them, and the fresh snapshot of each file in the order of the sorted
\* filenames; err when the parser raised
ParsePhase(rawdata) ==
    LET p == ParseLines(NewParser, rawdata)
        b == IF p.err THEN [files |-> EmptyMap, err |-> TRUE]
             ELSE BuildFiles([files |-> EmptyMap, err |-> FALSE], p.scripts)
        files == b.files
        names == SortedNames(files)
    IN [err |-> b.err, scripts |-> p.scripts, files |-> files,
        freshes |-> IF b.err THEN <<>>
                    ELSE [i \in 1..Len(names) |-> Fresh(names[i], files[names[i]])]]

\* filenames.forEach over the files still to be reconciled, in a call in
\* which no handler calls parseData
RECURSIVE ReconcileAll(_, _)
ReconcileAll(e, freshes) ==
    IF freshes = <<>> THEN e
    ELSE ReconcileAll(ReconcileFile(e, Head(freshes)), Tail(freshes))

\* what follows the notification of a new file when a handler called
\* parseData: that call runs on the state the notifying call has reached,
\* e.inner being ParsePhase of its rawdata, and the forEach of _trigger then
\* goes on with the listeners after it. The call finds ReenterFile stored,
\* so that no handler calls parseData within it. nested records what the
\* call found, what it left, the events it triggered and whether it raised
RECURSIVE Resume(_)
Resume(e) ==
    IF e.pending = <<>> THEN e
    ELSE LET r == ReconcileAll([e EXCEPT !.pending = <<>>, !.built = {},
                                         !.err = e.inner.err],
                               e.inner.freshes)
             back == [r EXCEPT !.built = e.built,
                               !.nested =
                                   Append(@, [before |-> e.filenames,
                                              after |-> r.filenames,
                                              events |-> SubSeq(r.events,
                                                                Len(e.events) + 1,
                                                                Len(r.events)),
                                              err |-> r.err])]
         IN Resume(Deliver(back, Head(e.pending).next, Head(e.pending).len,
                           Head(e.pending).ev))

\* filenames.forEach over the files still to be reconciled, in a call made
\* by the client
RECURSIVE ReconcileOuter(_, _)
ReconcileOuter(e, freshes) ==
    IF freshes = <<>> THEN e
    ELSE ReconcileOuter(Resume(ReconcileFile(e, Head(freshes))), Tail(freshes))

\* Coverage.prototype.parseData on the stored snapshots and the listeners
\* ls, ph being ParsePhase(rawdata) and inner ParsePhase of the rawdata a
\* handler passes to parseData: [filenames, listeners, events, audience,
\* delivered, built, nested, pending, inner, err]
parseData(stored, ls, ph, inner) ==
    ReconcileOuter([filenames |-> stored, listeners |-> ls, events |-> <<>>,
                    audience |-> <<>>, delivered |-> <<>>,
                    built |-> {}, nested |-> <<>>, pending |-> <<>>,
                    inner |-> inner, err |-> ph.err],
                   ph.freshes)

-----------------------------------------------------------------------------
(* Inputs *)

\* the largest execution count of an instruction line of the traces
MaxCount == 2
\* the largest number of instructions of a script under reachability analysis
MaxOps == 3

\* what a dump can hold of each function of the program observed: nothing
\* (not compiled yet, or reclaimed) or its record
FunA1 == {<<>>, Quirky("a", 1)}
FunA4 == {<<>>, Branchy("a", 4, 0), Plain("a", 4, 0), Plain("a", 4, 1)}
FunB1 == {<<>>} \cup {Plain("b", 1, c) : c \in 1..MaxCount}
FunB2 == {<<>>, DeadEnd("b", 2)}

\* the traces: successive dumps of one program, each led by the dummy record
Traces ==
    {Concat(<<Dummy, a1, a4, b1, b2>>) :
        a1 \in FunA1, a4 \in FunA4, b1 \in FunB1, b2 \in FunB2}

\* the rawdata the handler of "reenter" passes to parseData: a later dump,
\* in which the function of file a has run and file b has appeared
InnerTrace == Concat(<<Dummy, <<>>, Plain("a", 4, 1), Plain("b", 1, 1), <<>>>>)

-----------------------------------------------------------------------------
(* The engine: parseData calls on one Coverage object *)

IdleReach == rscript = NewScript /\ rpc = "idle" /\ rmarks = <<>>
IdleParse == parser = NewParser /\ input = <<>> /\ fed = <<>>
IdleLine == lfile = EmptyMap /\ lresult = <<>> /\ lpc = "idle"

Init ==
    /\ filenames = EmptyMap
    /\ data = <<>>
    /\ listeners = <<>>
    /\ trace = <<>>
    /\ events = <<>>
    /\ delivered = <<>>
    /\ threw = FALSE
    /\ built = {}
    /\ before = EmptyMap
    /\ nested = <<>>
    /\ removed = {}
    /\ heard = [ls |-> <<>>, gone |-> {}]
    /\ audience = <<>>
    /\ IdleReach
    /\ IdleParse
    /\ IdleLine

\* the dumps of a program whose file a holds a function on line 1 and,
\* once it is compiled, another on line 4
GrowingTraces ==
    {Concat(<<Dummy, a1, a4>>) :
        a1 \in {<<>>} \cup {Plain("a", 1, c) : c \in 1..MaxCount},
        a4 \in {<<>>} \cup {Plain("a", 4, c) : c \in 0..1}}

\* ParsePhase of every trace, tabulated once
Parsed == <<>> @@ [t \in Traces \cup GrowingTraces |-> ParsePhase(t)]

\* the table and r are bound once so that the call is evaluated once per
\* step
ParseData(rawdata) ==
    \E tab \in {Parsed} :
    \E r \in {parseData(filenames, listeners, tab[rawdata], tab[InnerTrace])} :
       /\ filenames' = r.filenames
       /\ events' = r.events
       /\ delivered' = r.delivered
       /\ threw' = r.err
       /\ built' = r.built
       /\ trace' = rawdata
       /\ before' = filenames
       /\ nested' = r.nested
       /\ heard' = [ls |-> listeners, gone |-> removed]
       /\ audience' = r.audience
       /\ listeners' = r.listeners
       /\ removed' = (removed \cup Registered(listeners)) \ Registered(r.listeners)
       /\ UNCHANGED <<data, reachVars, parseVars, lineVars>>

Next == \E rawdata \in Traces : ParseData(rawdata)

Spec == Init /\ [][Next]_vars

\* parseData calls on the dumps of the growing program
NextGrowing == \E rawdata \in GrowingTraces : ParseData(rawdata)

SpecGrowing == Init /\ [][NextGrowing]_vars

-----------------------------------------------------------------------------
(* The engine and its observers *)

\* the largest number of registered listeners
MaxListeners == 2

\* the observers a client registers
Observers == {"all", "lines", "reenter"}

\* the dumps the observed engine is given: the function of file a at line 4
\* not compiled yet or not run, and the function of b:1 run once or twice
ObsTraces ==
    {Concat(<<Dummy, <<>>, a4, b1, <<>>>>) :
        a4 \in {<<>>, Plain("a", 4, 0)},
        b1 \in {Plain("b", 1, c) : c \in 1..2}}

\* Coverage.prototype.addListener
AddListener(l) ==
    /\ Len(listeners) < MaxListeners
    /\ listeners' = addListener(listeners, l)
    /\ removed' = removed \ {l}
    /\ UNCHANGED <<filenames, data, trace, events, delivered, threw, built,
                   before, nested, heard, audience, reachVars, parseVars,
                   lineVars>>

\* Coverage.prototype.removeListener
RemoveListener(l) ==
    /\ listeners' = removeListener(listeners, l)
    /\ removed' = IF l \in Registered(listeners) /\ l \notin Registered(listeners')
                  THEN removed \cup {l}
                  ELSE removed
    /\ UNCHANGED <<filenames, data, trace, events, delivered, threw, built,
                   before, nested, heard, audience, reachVars, parseVars,
                   lineVars>>

NextObs ==
    \/ \E l \in Observers : AddListener(l)
    \/ \E l \in Observers : RemoveListener(l)
    \/ \E rawdata \in ObsTraces : ParseData(rawdata)

SpecObs == Init /\ [][NextObs]_vars

\* the observers of a client whose handlers register and unregister
\* observers while they are being notified
Mutators == {"all", "once", "recruit"}

NextMut ==
    \/ \E l \in Mutators : AddListener(l)
    \/ \E l \in Mutators : RemoveListener(l)
    \/ \E rawdata \in ObsTraces : ParseData(rawdata)

SpecMut == Init /\ [][NextMut]_vars


-----------------------------------------------------------------------------
(* Reachability analysis of one script *)

\* the address of the instruction at 0-based index i
PcOf(i) == 2 * i + 1

\* the assembly texts an instruction at index i of n can hold: a linear
\* instruction, a terminator, a jump or a conditional jump to any
\* instruction, a try without catch offset, a switch whose default and
\* case offsets lead to itself or forward, a jump that stands alone on its
\* line and is followed by a continuation line, led by the address of an
\* instruction or by no numeral, and a try followed by a continuation line
\* led by the address of the last instruction
InstrAt(i, n) ==
    {Asm("nop", Undefined, <<>>), Asm("return", Undefined, <<>>),
     Asm("try", Undefined, <<>>)}
    \cup {Asm("goto", PcOf(t), <<>>) : t \in 0..(n - 1)}
    \cup {Asm("ifeq", PcOf(t), <<>>) : t \in 0..(n - 1)}
    \cup {Asm("tableswitch", PcOf(d) - PcOf(i), <<Case(0, PcOf(c) - PcOf(i))>>) :
            d \in i..(n - 1), c \in i..(n - 1)}
    \cup {Asm("goto", Undefined, <<Case(l, 3)>>) :
            l \in {PcOf(t) : t \in 0..(n - 1)} \cup {Undefined}}
    \cup {Asm("try", Undefined, <<Case(PcOf(n - 1), 3)>>)}

\* the programs of n instructions, from index i on
RECURSIVE ProgramsFrom(_, _)
ProgramsFrom(i, n) ==
    IF i = n THEN {<<>>}
    ELSE {<<x>> \o rest : x \in InstrAt(i, n), rest \in ProgramsFrom(i + 1, n)}


\* the lines of the record of a program: each instruction line, followed by
\* one continuation line per case of a switch
RECURSIVE ProgramLines(_, _)
ProgramLines(p, i) ==
    IF i > Len(p) THEN <<>>
    ELSE <<DataLine(PcOf(i - 1), <<0, 0, 0>>, i, Asm(p[i].op, p[i].arg, <<>>))>>
         \o [k \in 1..Len(p[i].tail) |->
                ContLine(p[i].tail[k].label, p[i].tail[k].off)]
         \o ProgramLines(p, i + 1)

RecordOf(p) == <<StartLine("r", 1), MainLine>> \o ProgramLines(p, 1) \o <<EndLine>>

IdleEngine ==
    /\ filenames = EmptyMap /\ data = <<>> /\ listeners = <<>> /\ trace = <<>>
    /\ events = <<>> /\ delivered = <<>> /\ threw = FALSE /\ built = {}
    /\ before = EmptyMap /\ nested = <<>> /\ audience = <<>>
    /\ removed = {} /\ heard = [ls |-> <<>>, gone |-> {}]

\* a record led by a switch at address 100 with default offset 10 and one
\* case of offset 20, followed by instructions at addresses 10, 20, 110, 120
SwitchExample ==
    <<StartLine("r", 1), MainLine,
      DataLine(100, <<0, 0, 0>>, 1, Asm("tableswitch", 10, <<>>)), ContLine(0, 20),
      DataLine(10, <<0, 0, 0>>, 2, Asm("return", Undefined, <<>>)),
      DataLine(20, <<0, 0, 0>>, 3, Asm("return", Undefined, <<>>)),
      DataLine(110, <<0, 0, 0>>, 4, Asm("return", Undefined, <<>>)),
      DataLine(120, <<0, 0, 0>>, 5, Asm("return", Undefined, <<>>)),
      EndLine>>

InitReach ==
    /\ \/ \E n \in 1..MaxOps : \E p \in ProgramsFrom(0, n) :
             rscript = Script(RecordOf(p))
       \/ rscript = Script(SwitchExample)
    /\ rpc = "built"
    /\ rmarks = <<>>
    /\ IdleEngine
    /\ IdleParse
    /\ IdleLine

CheckReachability ==
    /\ rpc = "built"
    /\ rscript' = checkReachability(rscript)
    /\ rmarks' = MarksOf(rscript)
    /\ rpc' = "done"
    /\ UNCHANGED <<engineVars, parseVars, lineVars>>

NextReach == CheckReachability

SpecReach == InitReach /\ [][NextReach]_vars

-----------------------------------------------------------------------------
(* The tokenizer fed one line at a time *)

\* lines outside any record
Stray == <<OtherLine, MainLine, EndLine>>

\* a record with no instruction line between its markers
EmptyRecord == <<StartLine("a", 1), MainLine, EndLine>>

\* a record whose continuation line precedes its instruction lines
Orphan ==
    <<StartLine("a", 1), ContLine(0, 2), MainLine,
      Op(0, 1, 1, "return", Undefined), EndLine>>

\* the record of a script given on the command line, with instructions
CommandLine ==
    <<StartLine("-e", 1), MainLine, Op(0, 1, 1, "return", Undefined), EndLine>>

\* a record of no file with a start marker inside it and no instruction
Anonymous == <<StartLine("", 0), StartLine("a", 1), MainLine, EndLine>>

Records ==
    {Plain("a", 1, c) : c \in 1..(MaxCount + 1)}
    \cup {Branchy("a", 1, 0), Quirky("a", 1), Dummy, Stray, EmptyRecord, Orphan,
          CommandLine, Anonymous}

ParseInputs == {r1 \o r2 : r1 \in Records, r2 \in Records}

InitParse ==
    /\ parser = NewParser
    /\ input \in ParseInputs
    /\ fed = <<>>
    /\ IdleEngine
    /\ IdleReach
    /\ IdleLine

ProcessLine ==
    /\ input # <<>>
    /\ ~parser.err
    /\ parser' = processLine(parser, Head(input))
    /\ input' = Tail(input)
    /\ fed' = Append(fed, Head(input))
    /\ UNCHANGED <<engineVars, reachVars, lineVars>>

NextParse == ProcessLine

SpecParse == InitParse /\ [][NextParse]_vars


-----------------------------------------------------------------------------
(* The classification of one line *)

\* the largest number of instructions registered on the line classified
MaxLineOps == 3

\* the execution counts of the instructions of the line
LineCounts == 0..MaxCount \cup {5}

\* an opcode as checkReachability leaves it: a reachable linear instruction
\* falls through, a reachable jump does not, an unreachable instruction has
\* neither flag and count 0
LineOpcode(pc, c, op, reached) ==
    [pc |-> pc, count |-> c, srcline |-> 1,
     assembly |-> Asm(op, Undefined, <<>>),
     reachable |-> reached, fallsthrough |-> reached /\ linear(op),
     entrypoint |-> FALSE]

\* the opcodes an instruction at address pc of the line can be
LineOpcodes(pc) ==
    {LineOpcode(pc, c, op, TRUE) : c \in LineCounts, op \in {"nop", "return"}}
    \cup {LineOpcode(pc, 0, op, FALSE) : op \in {"nop", "stop"}}

\* the sequences of n opcodes, from address pc on
RECURSIVE OpcodeSeqs(_, _)
OpcodeSeqs(pc, n) ==
    IF n = 0 THEN {<<>>}
    ELSE {<<o>> \o rest : o \in LineOpcodes(pc), rest \in OpcodeSeqs(pc + 1, n - 1)}

\* the File whose line 1 holds the opcodes, registered in their order
FileOf(ops) == AddOpcodes(EmptyMap, <<"r", 1>>, ops)

InitLine ==
    /\ \E n \in 1..MaxLineOps : \E ops \in OpcodeSeqs(0, n) : lfile = FileOf(ops)
    /\ lresult = <<>>
    /\ lpc = "built"
    /\ IdleEngine
    /\ IdleReach
    /\ IdleParse

\* the File after File.prototype.coverage: the for-in visits the lines by
\* increasing number and ends at the first whose coverage() raises, so that
\* counts() has run on the lines up to that one
AfterCoverage(file) ==
    [n \in DOMAIN file |->
        IF \E m \in DOMAIN file : m < n /\ coverage(file[m]).err
        THEN file[n] ELSE Counted(file[n])]

\* the number of decimal digits of a positive integer
RECURSIVE Digits(_)
Digits(x) == IF x < 10 THEN 1 ELSE 1 + Digits(x \div 10)

\* Math.floor(Math.log(x)/Math.LN10) of a positive integer below 2^31: one
\* less than its number of digits, but for 10^3, 10^6 and 10^9, where the
\* quotient of the two doubles falls just below the integer (2.9999999999999996
\* for 1000) and the floor is 2, 5 and 8
Log10(x) ==
    IF x \in {1000, 1000000, 1000000000} THEN Digits(x) - 2 ELSE Digits(x) - 1

\* log of profileClass: 0 when x <= 0, Math.min(..., 9) otherwise
log(x) == IF x <= 0 THEN 0 ELSE MathMin(Log10(x), 9)

\* File.prototype.coverageClass for a line number n: [err, class]; err when
\* coverage() raised
coverageClass(file, n) ==
    IF n \notin DOMAIN file THEN [err |-> FALSE, class |-> ""]
    ELSE IF coverage(file[n]).err THEN [err |-> TRUE, class |-> ""]
    ELSE [err |-> FALSE, class |-> " " \o coverage(file[n]).class]

\* File.prototype.profileClass for a line number n: [err, class]; err when
\* counts() returned undefined and counts.length raised. The last count is
\* undefined when the array is empty or holds undefined, and its logarithm
\* is then NaN
profileClass(file, n) ==
    IF n \notin DOMAIN file THEN [err |-> FALSE, class |-> ""]
    ELSE LET c == counts(file[n])
         IN IF ~c.defined THEN [err |-> TRUE, class |-> ""]
            ELSE IF c.list = <<>> \/ c.list[Len(c.list)] = UndefinedCount
            THEN [err |-> FALSE, class |-> " pNaN"]
            ELSE [err |-> FALSE,
                  class |-> " p" \o <<"0", "1", "2", "3", "4", "5", "6", "7",
                                      "8", "9">>[log(c.list[Len(c.list)]) + 1]]

\* the line numbers a caller asks the File about
LineNumbers == 1..2

\* line.counts() on line 1 of the File built; raw is what the loop over the
\* opcodes of the line records
Counts ==
    /\ lpc = "built"
    /\ lresult' = [counts |-> counts(lfile[1]), raw |-> RawCountsOf(lfile[1])]
    /\ lfile' = [lfile EXCEPT ![1] = Counted(@)]
    /\ lpc' = "counted"
    /\ UNCHANGED <<engineVars, reachVars, parseVars>>

\* line.coverage() on line 1
Coverage ==
    /\ lpc = "counted"
    /\ lresult' = [counts |-> lresult.counts, raw |-> lresult.raw,
                   coverage |-> coverage(lfile[1])]
    /\ lfile' = [lfile EXCEPT ![1] = Counted(@)]
    /\ lpc' = "classed"
    /\ UNCHANGED <<engineVars, reachVars, parseVars>>

\* file.coverage()
Tally ==
    /\ lpc = "classed"
    /\ lresult' = [counts |-> lresult.counts, raw |-> lresult.raw,
                   coverage |-> lresult.coverage, tally |-> FileCoverage(lfile)]
    /\ lfile' = AfterCoverage(lfile)
    /\ lpc' = "done"
    /\ UNCHANGED <<engineVars, reachVars, parseVars>>

\* file.coverageClass(n): coverage() of line n runs counts() on it
CoverageClass(n) ==
    /\ lpc \in {"built", "counted", "classed"}
    /\ lfile' = IF n \in DOMAIN lfile
                THEN [lfile EXCEPT ![n] = Counted(@)] ELSE lfile
    /\ UNCHANGED <<lresult, lpc, engineVars, reachVars, parseVars>>

\* file.profileClass(n): runs counts() on line n
ProfileClass(n) ==
    /\ lpc \in {"built", "counted", "classed"}
    /\ lfile' = IF n \in DOMAIN lfile
                THEN [lfile EXCEPT ![n] = Counted(@)] ELSE lfile
    /\ UNCHANGED <<lresult, lpc, engineVars, reachVars, parseVars>>

NextLine ==
    \/ Counts
    \/ Coverage
    \/ Tally
    \/ \E n \in LineNumbers : CoverageClass(n)
    \/ \E n \in LineNumbers : ProfileClass(n)

SpecLine == InitLine /\ [][NextLine]_vars

\* the opcodes the parser can build for the instruction at address pc of a
\* script of n instructions that spans the source lines 1 and 2: a linear
\* instruction, a terminator or a conditional branch to any instruction,
\* never or often executed; the first instruction is on line 1
SplitOpcodes(pc, n) ==
    {[pc |-> pc, count |-> c, srcline |-> l, assembly |-> a,
      reachable |-> FALSE, fallsthrough |-> FALSE, entrypoint |-> FALSE] :
        c \in {0, 5},
        l \in IF pc = 0 THEN {1} ELSE {1, 2},
        a \in {Asm("nop", Undefined, <<>>), Asm("return", Undefined, <<>>)}
               \cup {Asm("ifeq", t, <<>>) : t \in 0..(n - 1)}}

\* the opcode sequences of such a script, from address pc on
RECURSIVE SplitSeqs(_, _)
SplitSeqs(pc, n) ==
    IF pc = n THEN {<<>>}
    ELSE {<<o>> \o rest : o \in SplitOpcodes(pc, n), rest \in SplitSeqs(pc + 1, n)}

\* the Script r:1 of these opcodes, "main:" before the first, as the parser
\* registers it: its reachability analysed
SplitScript(ops) ==
    checkReachability([NewScript EXCEPT !.filename = "r", !.startline = 1,
                                        !.name = <<"r", 1>>, !.entrypoint = 0,
                                        !.opcodes = ops])

\* the File that parseData builds from the one script
SplitFile(script) ==
    AddScript([files |-> EmptyMap, err |-> FALSE], script).files["r"]

\* the scripts whose analysis raises never reach parseData's files
InitSplit ==
    /\ \E n \in 1..MaxLineOps : \E ops \in SplitSeqs(0, n) :
          \E script \in {SplitScript(ops)} :
             /\ ~script.err
             /\ lfile = SplitFile(script)
    /\ lresult = <<>>
    /\ lpc = "built"
    /\ IdleEngine
    /\ IdleReach
    /\ IdleParse

\* the classification of line 1 of a script that spans two lines
SpecSplit == InitSplit /\ [][NextLine]_vars


-----------------------------------------------------------------------------
(* Properties of parseData.  The state after a call holds what the call    *)
(* found (before), what it was given (trace), what it emitted (events),    *)
(* whether it raised (threw) and what it left (filenames).                 *)

Called == trace # <<>>

\* the state-independent half of the last call
Ph == Parsed[trace]

AllFiles == {FileOrder[k] : k \in 1..Len(FileOrder)}

\* the last call built a fresh snapshot of the file
HasFresh(f) == f \in built

FreshData(f) ==
    Ph.freshes[CHOOSE k \in 1..Len(Ph.freshes) : Ph.freshes[k].filename = f].filedata

\* the filenames of the records of the trace that are not skipped
TraceFiles ==
    {trace[k].file : k \in {j \in 1..Len(trace) :
                               trace[j].kind = "start" /\ trace[j] \notin Sentinels}}

\* the array index an onLineUpdate event is about
EventIndex(ev) == IF ev.site = "adopt" THEN ev.line - 1 ELSE ev.line

EventsOf(type, f) ==
    {k \in 1..Len(events) : events[k].type = type /\ events[k].filename = f}

LineEvents(f, i) ==
    {k \in EventsOf("onLineUpdate", f) : EventIndex(events[k]) = i}

Tallies(snapshot) ==
    <<snapshot.covered, snapshot.partial, snapshot.uncovered, snapshot.dead>>

\* the number of entries of a lines array of a given class
OfClass(lines, class) ==
    Cardinality({i \in DOMAIN lines : lines[i].coverage = class})

\* C1: parsing the same trace a second time emits no onLineUpdate and no
\* onScriptUpdate and leaves every stored snapshot as the first call left it.
C1_RoundTrip ==
    [][(trace # <<>> /\ trace' = trace) =>
          /\ \A k \in 1..Len(events') :
                events'[k].type \notin {"onLineUpdate", "onScriptUpdate"}
          /\ filenames' = filenames]_vars

\* the indexes the last call reported for a file already stored that the
\* stored snapshot did not hold
NewIndexes(f) ==
    IF f \in DOMAIN before /\ HasFresh(f)
    THEN DOMAIN FreshData(f).lines \ DOMAIN before[f].lines
    ELSE {}

\* C2: a line index new to the stored snapshot of a file already seen is
\* adopted into it, notified by exactly one onLineUpdate, and the call goes
\* on and returns normally.
C2_AdoptAndGoOn ==
    Called =>
      \A f \in AllFiles : \A i \in NewIndexes(f) :
          /\ i \in DOMAIN filenames[f].lines
          /\ filenames[f].lines[i] = FreshData(f).lines[i]
          /\ Cardinality(LineEvents(f, i)) = 1
          /\ ~threw

\* C3: for a line index held by both the stored and the fresh snapshot,
\* onLineUpdate is emitted exactly when class or counts differ, and after
\* the call the stored class and counts are the fresh ones.
C3_LineDiff ==
    Called =>
      \A f \in DOMAIN before :
        HasFresh(f) =>
          \A i \in DOMAIN before[f].lines \cap DOMAIN FreshData(f).lines :
            LET old == before[f].lines[i]
                new == FreshData(f).lines[i]
                now == filenames[f].lines[i]
            IN /\ (LineEvents(f, i) # {})
                    <=> (new.coverage # old.coverage \/ new.counts # old.counts)
               /\ now.coverage = new.coverage
               /\ now.counts = new.counts

\* C4: the call that first meets a filename stores its snapshot and emits
\* exactly one onNewScript and no other event for it; a file already stored
\* gets no onNewScript.
C4_NewScriptOnce ==
    Called =>
      \A f \in AllFiles :
        /\ (f \in TraceFiles /\ f \notin DOMAIN before) =>
              /\ f \in DOMAIN filenames
              /\ Cardinality(EventsOf("onNewScript", f)) = 1
              /\ EventsOf("onLineUpdate", f) = {}
              /\ EventsOf("onScriptUpdate", f) = {}
        /\ f \in DOMAIN before => EventsOf("onNewScript", f) = {}

\* C5: the four stored tallies of every file are the numbers of entries of
\* its lines array of class full, some, none and dead, and onScriptUpdate is
\* emitted for a file exactly when one of its stored tallies changed.
C5_TallyInvariant ==
    \A f \in DOMAIN filenames :
      /\ Tallies(filenames[f]) =
            <<OfClass(filenames[f].lines, "full"), OfClass(filenames[f].lines, "some"),
              OfClass(filenames[f].lines, "none"), OfClass(filenames[f].lines, "dead")>>
      /\ Called =>
            ((EventsOf("onScriptUpdate", f) # {})
               <=> (f \in DOMAIN before /\ Tallies(before[f]) # Tallies(filenames[f])))

\* the stored line indexes of a file that the last trace does not hold
AbsentLines(f) ==
    IF f \in DOMAIN Ph.files
    THEN {i \in DOMAIN before[f].lines : (i + 1) \notin DOMAIN Ph.files[f]}
    ELSE DOMAIN before[f].lines

TallyOf(snapshot, class) ==
    CASE class = "full" -> snapshot.covered
      [] class = "some" -> snapshot.partial
      [] class = "none" -> snapshot.uncovered
      [] class = "dead" -> snapshot.dead

\* C6: no stored file or line is ever removed; a stored line absent from
\* the trace keeps its class and counts, gets no event, and is counted in
\* the stored tally of its class.
C6_Accumulation ==
    Called =>
      \A f \in DOMAIN before :
        /\ f \in DOMAIN filenames
        /\ DOMAIN before[f].lines \subseteq DOMAIN filenames[f].lines
        /\ \A i \in AbsentLines(f) :
              /\ filenames[f].lines[i] = before[f].lines[i]
              /\ LineEvents(f, i) = {}
        /\ \A class \in {"full", "some", "none", "dead"} :
              TallyOf(filenames[f], class) >=
                Cardinality({i \in AbsentLines(f) :
                                filenames[f].lines[i].coverage = class})

\* the successors of the instruction at 0-based index i: none after a
\* terminator, the target after an unconditional branch, the next instruction
\* and the target, when there is one, after a conditional branch, the default
\* and every case target after a switch, the next instruction otherwise
Successors(ops, i) ==
    LET opcode == ops[i + 1]
        op == opcode.assembly.op
        next == IF i + 1 < Len(ops) THEN {i + 1} ELSE {}
        target == {branchIndex(ops, opcode.assembly)} \ {Undefined}
    IN CASE op \in terminators -> {}
         [] op \in unconditionals -> target
         [] op \in conditionals -> next \cup target
         [] op \in switches ->
              ({PcToOpcodeIndex(ops, opcode.pc + opcode.assembly.arg)}
               \cup {PcToOpcodeIndex(ops, opcode.pc + opcode.assembly.tail[k].off) :
                       k \in 1..Len(opcode.assembly.tail)}) \ {Undefined}
         [] OTHER -> next

RECURSIVE Closure(_, _)
Closure(ops, seen) ==
    LET more == seen \cup UNION {Successors(ops, i) : i \in seen}
    IN IF more = seen THEN seen ELSE Closure(ops, more)

\* the indexes reachable from position 0 in the graph of the successors
GraphReach(ops) == Closure(ops, {0})

\* C7: after checkReachability an instruction is marked reachable exactly
\* when it is reachable from position 0 in the graph of the successor rules.
C7_Reachability ==
    rpc = "done" =>
      \A i \in 1..Len(rscript.opcodes) :
          rscript.opcodes[i].reachable <=> (i - 1) \in GraphReach(rscript.opcodes)

\* the record that the line about to be fed closes
Closing == Append(parser.scriptlines, Head(input))

\* the line about to be fed closes a record that is not skipped and whose
\* signature is that of the k-th script registered
Repeats(k) ==
    /\ input # <<>> /\ ~parser.err /\ parser.inscript
    /\ Head(input).kind = "end"
    /\ Closing[1] \notin Sentinels
    /\ ~Script(Closing).err
    /\ k \in 1..Len(parser.scriptMap)
    /\ parser.scriptMap[k] = ScriptToString(Script(Closing))

\* C8: a record whose signature is that of a script already registered adds
\* no script: its counts are added instruction by instruction to those of the
\* script first seen, whose reachable and fall-through flags stay as they were.
C8_MergeCounts ==
    [][\A k \in 1..Len(parser.scripts) :
          Repeats(k) =>
            /\ Len(parser'.scripts) = Len(parser.scripts)
            /\ \A j \in 1..Len(parser.scripts) :
                  j # k => parser'.scripts[j] = parser.scripts[j]
            /\ \A i \in 1..Len(parser.scripts[k].opcodes) :
                  LET was == parser.scripts[k].opcodes[i]
                      now == parser'.scripts[k].opcodes[i]
                  IN /\ now.count = was.count + Script(Closing).opcodes[i].count
                     /\ now.reachable = was.reachable
                     /\ now.fallsthrough = was.fallsthrough]_vars

\* C8: a two-instruction script seen with counts 3,3 and then with counts
\* 2,2 is one script with counts 5,5.
C8_Merged ==
    /\ fed = Plain("a", 1, 3) \o Plain("a", 1, 2)
    /\ ~parser.err
    /\ Len(parser.scripts) = 1
    /\ [i \in 1..Len(parser.scripts[1].opcodes) |->
           parser.scripts[1].opcodes[i].count] = <<5, 5>>

\* the trace holds the record
Holds(t, record) ==
    \E k \in 0..(Len(t) - Len(record)) : SubSeq(t, k + 1, k + Len(record)) = record

\* the stored line 1 of file b, which only the function Plain("b", 1, c)
\* occupies, was stored by an earlier call
StoredB == "b" \in DOMAIN before /\ 0 \in DOMAIN before["b"].lines

\* C9 as stated: when the script stored with count a is parsed again with
\* count c by a later call, the stored counts of its line are the sum a + c.
C9_SumAcrossCalls ==
    Called =>
      \A c \in 1..MaxCount :
        (StoredB /\ Holds(trace, Plain("b", 1, c))) =>
            filenames["b"].lines[0].counts = <<before["b"].lines[0].counts[1] + c>>

\* the last call came to compare the stored line at index i of file f: it
\* built the snapshot of the file, and no line of the trace with a smaller
\* index was missing from the stored snapshot (the adoption of such a line
\* raises and ends the call)
ReachedLine(f, i) ==
    /\ f \in built
    /\ \A j \in DOMAIN FreshData(f).lines : j < i => j \in DOMAIN before[f].lines

\* C9: when the script stored with count a is parsed again with count c by
\* a later call, the stored counts of its line are c alone, not a + c, once
\* the call has come to that line, and stay a when the call raised before
\* it came to it, be it before the file or at an earlier line of the file.
C9_LastCallWins ==
    Called =>
      \A f \in DOMAIN before : \A n \in 1..4 : \A c \in 0..MaxCount :
        ((n - 1) \in DOMAIN before[f].lines /\ Holds(trace, Plain(f, n, c))) =>
            filenames[f].lines[n - 1].counts =
                IF ReachedLine(f, n - 1) THEN <<c>>
                ELSE before[f].lines[n - 1].counts

\* C9: a script stored with count 1 and parsed again with count 2 is stored
\* with count 2.
C9_Replaced ==
    /\ StoredB
    /\ before["b"].lines[0].counts = <<1>>
    /\ Holds(trace, Plain("b", 1, 2))
    /\ "b" \in built
    /\ filenames["b"].lines[0].counts = <<2>>

\* C10: a line whose only instruction is unreachable and is not stop has
\* counts [-1] and class dead, and a call over a trace that holds such a line
\* returns normally and stores the line with class dead.
C10_DeadLine ==
    Called =>
      (Holds(trace, DeadEnd("b", 2)) =>
          /\ ~Ph.err
          /\ counts(Ph.files["b"][3]) = [defined |-> TRUE, list |-> <<-1>>]
          /\ coverage(Ph.files["b"][3]) = [err |-> FALSE, class |-> "dead"]
          /\ ~threw
          /\ 2 \in DOMAIN filenames["b"].lines
          /\ filenames["b"].lines[2].coverage = "dead")

-----------------------------------------------------------------------------
(* Properties of the classification of a line *)

\* the line has been classified
Classified == lpc = "done"

\* the opcodes of the line classified, in registration order
LineOps == [i \in 1..Len(lfile[1].opcodes) |-> lfile[1].opcodes[i].opcode]

\* the list counts() returned, with its being defined
CountsAre(list) == lresult.counts = [defined |-> TRUE, list |-> list]

\* the class coverage() returned
ClassIs(class) == lresult.coverage = [err |-> FALSE, class |-> class]

\* C11: a line of two instructions, one unreachable and one reachable with
\* a positive count n, has counts [-1, n] and class full.
C11_DeadAndLive ==
    Classified =>
      \A n \in LineCounts \ {0} :
        (/\ Len(LineOps) = 2
         /\ \E i, j \in 1..2 :
               /\ i # j
               /\ ~LineOps[i].reachable
               /\ LineOps[j].reachable /\ LineOps[j].count = n)
        => (CountsAre(<<-1, n>>) /\ ClassIs("full"))

\* the line holds two reachable instructions, the first registered with
\* count c1 and the second with count c2
TwoReachable(c1, c2) ==
    /\ Len(LineOps) = 2
    /\ LineOps[1].reachable /\ LineOps[1].count = c1
    /\ LineOps[2].reachable /\ LineOps[2].count = c2

\* C12 as stated: two reachable instructions with counts 0 and 5, in either
\* order and whatever the fall-through flag of the first, give counts [0, 5]
\* and class some.
C12_ZeroAndFive ==
    Classified =>
      ((TwoReachable(0, 5) \/ TwoReachable(5, 0))
         => (CountsAre(<<0, 5>>) /\ ClassIs("some")))

\* C12: two reachable instructions with counts 0 and 5 give counts [0, 5]
\* and class some, except that a zero count registered after a fall-through
\* instruction of count 5 is left out, giving counts [5] and class full.
C12_ZeroAndFiveUnlessSuppressed ==
    Classified =>
      /\ (TwoReachable(0, 5) \/ (TwoReachable(5, 0) /\ ~LineOps[1].fallsthrough))
            => (CountsAre(<<0, 5>>) /\ ClassIs("some"))
      /\ (TwoReachable(5, 0) /\ LineOps[1].fallsthrough)
            => (CountsAre(<<5>>) /\ ClassIs("full"))

\* C12: a jump of count 5 followed by an instruction of count 0 has been
\* classified some with counts [0, 5].
C12_JumpThenZero ==
    /\ Classified
    /\ TwoReachable(5, 0) /\ ~LineOps[1].fallsthrough
    /\ CountsAre(<<0, 5>>) /\ ClassIs("some")

\* the line holds one instruction, unreachable, whose assembly is stop
LoneStop ==
    /\ Len(LineOps) = 1
    /\ ~LineOps[1].reachable
    /\ LineOps[1].assembly = Asm("stop", Undefined, <<>>)

\* C13: a line whose only instruction is an unreachable stop has counts []
\* and the insignificant class "", and adds to none of the four tallies of
\* File.coverage.
C13_LoneStopInsignificant ==
    (Classified /\ LoneStop) =>
        /\ CountsAre(<<>>)
        /\ ClassIs("")
        /\ lresult.tally = [err |-> FALSE, tally |-> <<0, 0, 0, 0>>]

\* C13: a line whose only instruction is an unreachable stop has been
\* classified.
C13_LoneStopClassified ==
    Classified /\ LoneStop /\ CountsAre(<<>>) /\ ClassIs("")

\* the class the rules give for a list of counts
ClassOfCounts(l) ==
    IF l = <<>> THEN ""
    ELSE IF l[1] > 0 THEN "full"
    ELSE IF l = <<0>> THEN "none"
    ELSE IF l = <<-1>> THEN "dead"
    ELSE IF Len(l) > 1 /\ l[1] = -1 /\ l[2] > 0 THEN "full"
    ELSE IF Len(l) > 1 THEN "some"
    ELSE "undefined"

\* C14: for every line that holds an instruction, coverage() returns one of
\* the five classes, the one the rules give for counts(); a single reachable
\* instruction of count n > 0 gives counts [n].
C14_FiveClasses ==
    Classified =>
        /\ lresult.counts.defined
        /\ ~lresult.coverage.err
        /\ lresult.coverage.class \in {"full", "some", "none", "dead", ""}
        /\ lresult.coverage.class = ClassOfCounts(lresult.counts.list)
        /\ (Len(LineOps) = 1 /\ LineOps[1].reachable /\ LineOps[1].count > 0)
              => CountsAre(<<LineOps[1].count>>)

-----------------------------------------------------------------------------
(* Properties of the reachability analysis *)

\* the analysis of the script has returned without raising
Analysed == rpc = "done" /\ ~rscript.err

\* the indexes reachable() is called on from the instruction at index i:
\* the successors of a jump, a conditional or a switch
EntryTargets(ops, i) ==
    IF linear(ops[i + 1].assembly.op) THEN {} ELSE Successors(ops, i)

\* the 0-based indexes of the opcodes of the script at one of the addresses
AtAddresses(ops, pcs) == {j \in 0..(Len(ops) - 1) : ops[j + 1].pc \in pcs}

\* the addresses a switch leads to when its offsets are added to its own
SwitchAddresses(opcode) ==
    {opcode.pc + opcode.assembly.arg}
    \cup {opcode.pc + opcode.assembly.tail[k].off : k \in 1..Len(opcode.assembly.tail)}

\* C15: after the analysis, the instructions at the address of a reachable
\* switch plus its default and case offsets are marked reachable and as entry
\* points, and an instruction is marked as an entry point only when it is
\* the first one or such a successor of a reachable jump, conditional or
\* switch: never for standing at the absolute address an offset names.
C15_SwitchRelative ==
    Analysed =>
      LET ops == rscript.opcodes
      IN /\ \A i \in 0..(Len(ops) - 1) :
              (ops[i + 1].reachable /\ ops[i + 1].assembly.op \in switches) =>
                 \A j \in AtAddresses(ops, SwitchAddresses(ops[i + 1])) :
                    ops[j + 1].reachable /\ ops[j + 1].entrypoint
         /\ \A j \in 0..(Len(ops) - 1) :
              ops[j + 1].entrypoint <=>
                 (j = 0 \/ \E i \in 0..(Len(ops) - 1) :
                              ops[i + 1].reachable /\ j \in EntryTargets(ops, i))

\* C15: the switch at address 100 with default offset 10 and case offset 20
\* has been analysed: the instructions at 110 and 120 are marked, those at
\* 10 and 20 are not.
C15_Example ==
    /\ Analysed
    /\ Len(rscript.opcodes) = 5
    /\ rscript.opcodes[1].pc = 100 /\ rscript.opcodes[1].reachable
    /\ \A j \in AtAddresses(rscript.opcodes, {110, 120}) :
          rscript.opcodes[j + 1].reachable /\ rscript.opcodes[j + 1].entrypoint
    /\ \A j \in AtAddresses(rscript.opcodes, {10, 20}) :
          ~rscript.opcodes[j + 1].reachable /\ ~rscript.opcodes[j + 1].entrypoint
    /\ AtAddresses(rscript.opcodes, {10, 20, 110, 120}) = {1, 2, 3, 4}

-----------------------------------------------------------------------------
(* Properties of the tokenizer *)

\* C16: whatever lines are fed, in any order and number, tokenizing and
\* building scripts raises no error.
C16_Tolerant == ~parser.err

\* the headers of the records to discard
SentinelHeaders == {<<"(null)", 0>>, <<"", 0>>, <<"-e", 1>>}

\* the blocks of the lines fed, as the tokenizer's rules delimit them: a
\* start marker met outside a block opens one, every line met inside it is
\* collected, and an end marker closes it; open tells whether a block is
\* open after the last line
RECURSIVE Delimit(_, _)
Delimit(b, lines) ==
    IF lines = <<>> THEN b
    ELSE LET line == Head(lines)
         IN Delimit(
              IF b.open
              THEN IF line.kind = "end"
                   THEN [open |-> FALSE, current |-> <<>>,
                         closed |-> Append(b.closed, Append(b.current, line))]
                   ELSE [b EXCEPT !.current = Append(@, line)]
              ELSE IF line.kind = "start"
                   THEN [b EXCEPT !.open = TRUE, !.current = <<line>>]
                   ELSE b,
              Tail(lines))

Blocks == Delimit([open |-> FALSE, current |-> <<>>, closed |-> <<>>], fed)

\* the scripts the builder makes of a sequence of blocks
RECURSIVE BuiltFrom(_, _)
BuiltFrom(p, blocks) ==
    IF blocks = <<>> THEN p
    ELSE BuiltFrom(CloseScript(p, Head(blocks)), Tail(blocks))

\* C20: whatever lines have been fed, the scripts of the parser are those
\* the builder makes of the closed blocks whose first line is not one of
\* the three sentinel headers, in order, a block led by a sentinel header
\* adding none whatever it holds; and the parser is inside a record exactly
\* when a block is open, so that it is outside after every end marker that
\* closes a block.
C20_SentinelDiscard ==
    LET handed == SelectSeq(Blocks.closed,
                            LAMBDA l : <<l[1].file, l[1].line>> \notin SentinelHeaders)
    IN /\ parser.scripts = BuiltFrom(NewParser, handed).scripts
       /\ parser.inscript = Blocks.open


-----------------------------------------------------------------------------
(* Properties of the observers *)

\* C17: every parseData call a handler made while the notifying call was
\* still running raised an error, left the stored snapshots as it found
\* them and triggered no event.
C17_ReentrancyRejected ==
    \A k \in 1..Len(nested) :
        /\ nested[k].err
        /\ nested[k].after = nested[k].before
        /\ nested[k].events = <<>>

\* the listeners of ls that implement the handler of an event type, in
\* registration order
Receivers(ls, type) == SelectSeq(ls, LAMBDA l : type \in HandlersOf(l))

\* the handler invocations of a sequence of events none of whose handlers
\* calls parseData
RECURSIVE Invocations(_, _)
Invocations(evs, ls) ==
    IF evs = <<>> THEN <<>>
    ELSE [i \in 1..Len(Receivers(ls, Head(evs).type)) |->
             [to |-> Receivers(ls, Head(evs).type)[i], ev |-> Head(evs)]]
         \o Invocations(Tail(evs), ls)

\* the observers that handled ev during the last call, in the order of the
\* invocations
HandledBy(ev) ==
    LET of == SelectSeq(delivered, LAMBDA d : d.ev = ev)
    IN [i \in 1..Len(of) |-> of[i].to]

\* the number of times the last call triggered ev
Triggered(ev) == Cardinality({i \in 1..Len(events) : events[i] = ev})

\* seq repeated n times
RECURSIVE Repeat(_, _)
Repeat(seq, n) == IF n = 0 THEN <<>> ELSE seq \o Repeat(seq, n - 1)

\* whether every handler invoked during the last call returned: a handler
\* of the model raises when the parseData call it made raised
HandlersReturned == \A k \in 1..Len(nested) : ~nested[k].err

\* C18: when parseData has returned or raised, every event it triggered has
\* been handled, provided the handlers returned, by exactly the observers
\* registered at the call that implement its handler, in registration
\* order and once for each time it was triggered, an observer without the
\* handler being passed over; nothing else was handled, and an observer
\* that removeListener had taken out handled nothing. When no handler
\* called parseData, the invocations follow the order of the events.
C18_Dispatch ==
    /\ HandlersReturned =>
          \A i \in 1..Len(events) :
             HandledBy(events[i]) =
                 Repeat(Receivers(heard.ls, events[i].type), Triggered(events[i]))
    /\ \A k \in 1..Len(delivered) :
          /\ \E i \in 1..Len(events) : events[i] = delivered[k].ev
          /\ delivered[k].to \notin heard.gone
    /\ nested = <<>> => delivered = Invocations(events, heard.ls)

\* C18: a call made with the observers "lines" and "all" registered in
\* that order, "reenter" having been registered and removed before it,
\* triggered onNewScript for file a and a line update: "lines" was passed
\* over for the first and came before "all" for the second, and the
\* removed observer handled nothing.
C18_SkippedThenHeard ==
    /\ heard.ls = <<"lines", "all">>
    /\ "reenter" \in heard.gone
    /\ ~threw
    /\ \E i \in 1..Len(events) :
          /\ events[i].type = "onNewScript" /\ events[i].filename = ReenterFile
          /\ HandledBy(events[i]) = <<"all">>
    /\ \E i \in 1..Len(events) :
          /\ events[i].type = "onLineUpdate"
          /\ HandledBy(events[i]) = <<"lines", "all">>
    /\ \A k \in 1..Len(delivered) : delivered[k].to # "reenter"

-----------------------------------------------------------------------------
(* Properties of the data property *)

\* C19: when parseData has returned, Coverage.data holds one record for
\* each file seen so far, ordered by filename, each the stored snapshot of
\* its file (filename, covered, partial, uncovered, dead, lines).
C19_DataHoldsOutput ==
    (trace # <<>> /\ ~threw) =>
        data = [i \in 1..Len(SortedNames(filenames)) |->
                   filenames[SortedNames(filenames)[i]]]

-----------------------------------------------------------------------------
(* Properties of the reachability analysis: termination and the last       *)
(* instruction                                                              *)

\* C21: on every script of SpecReach, whose targets all resolve and which
\* include backward branches and loops, checkReachability returns without
\* raising, no instruction has been marked reachable twice, and the
\* instructions marked are those that end reachable.
C21_Terminates ==
    rpc = "done" =>
        /\ ~rscript.err
        /\ \A j, k \in 1..Len(rmarks) : rmarks[j] = rmarks[k] => j = k
        /\ {rmarks[k] : k \in 1..Len(rmarks)} =
              {i \in 0..(Len(rscript.opcodes) - 1) : rscript.opcodes[i + 1].reachable}

-----------------------------------------------------------------------------
(* Properties of the suppression rule of Line.counts *)

\* the opcodes of the script classified, on whatever line
ScriptOps ==
    UNION {{lfile[l].opcodes[i].opcode : i \in 1..Len(lfile[l].opcodes)} :
              l \in DOMAIN lfile}

\* o directly falls through from the instruction before it in the script,
\* whose count is equal, or is not zero while that of o is
LeftOut(o) ==
    \E q \in ScriptOps :
        /\ q.pc = o.pc - 1
        /\ q.fallsthrough
        /\ (o.count = q.count \/ (o.count = 0 /\ q.count # 0))

\* what the rule records for the opcodes of the line from the i-th on: -1
\* for an unreachable one, the count of a reachable one that is not left out
RECURSIVE Recorded(_)
Recorded(i) ==
    IF i > Len(LineOps) THEN <<>>
    ELSE (IF ~LineOps[i].reachable THEN <<-1>>
          ELSE IF LeftOut(LineOps[i]) THEN <<>>
          ELSE <<LineOps[i].count>>) \o Recorded(i + 1)

\* C22 as stated: the counts the loop of Line.counts records for a line are
\* those of the rule that looks at the script: the count of a reachable
\* instruction is left out exactly when the instruction just before it in its
\* script is a reachable linear one with an equal count, or with a non-zero
\* count while this one's is zero.
C22_Suppression == Classified => lresult.raw = Recorded(1)

\* the i-th opcode of the line comes after one of the line that falls
\* through, whose count is equal, or is not zero while its own is
LeftOutOnLine(i) ==
    /\ i > 1
    /\ LineOps[i - 1].fallsthrough
    /\ \/ LineOps[i].count = LineOps[i - 1].count
       \/ LineOps[i].count = 0 /\ LineOps[i - 1].count # 0

\* what the rule of the line records: -1 for an unreachable opcode, the
\* count of a reachable one that is not left out, in the order of the line
RecordedOnLine ==
    LET kept == {i \in 1..Len(LineOps) :
                    LineOps[i].reachable => ~LeftOutOnLine(i)}
        RECURSIVE upto(_)
        upto(i) == IF i = 0 THEN <<>>
                   ELSE upto(i - 1) \o
                        (IF i \notin kept THEN <<>>
                         ELSE IF LineOps[i].reachable THEN <<LineOps[i].count>>
                         ELSE <<-1>>)
    IN upto(Len(LineOps))

\* C22: the count of a reachable instruction is left out of the counts that
\* Line.counts records exactly when the instruction registered just before it
\* on the same line, wherever that one stands in the script, falls through
\* and has an equal count, or a non-zero count while this one's is zero; every
\* other reachable count is recorded, and -1 for every unreachable instruction.
C22_SuppressionOnLine == Classified => lresult.raw = RecordedOnLine

\* a line classified whose two reachable instructions stand at the addresses
\* 0 and 2 of the script, with the counts 0 and 5: the second is recorded
\* after the first, although it falls through from the instruction at
\* address 1, on line 2, whose count is 5 as well
C22_SplitLine ==
    /\ Classified
    /\ Len(LineOps) = 2
    /\ LineOps[1].pc = 0 /\ LineOps[2].pc = 2
    /\ LineOps[1].reachable /\ LineOps[2].reachable
    /\ LineOps[1].count = 0 /\ LineOps[2].count = 5
    /\ LeftOut(LineOps[2])
    /\ ~LeftOutOnLine(2)
    /\ lresult.raw = <<0, 5>>

-----------------------------------------------------------------------------
(* Properties of the line index of onLineUpdate *)

\* the array indexes of file f the last call adopted, and those whose stored
\* line it changed
AdoptedIndexes(f) ==
    IF f \notin DOMAIN before THEN {}
    ELSE DOMAIN filenames[f].lines \ DOMAIN before[f].lines

ChangedIndexes(f) ==
    IF f \notin DOMAIN before THEN {}
    ELSE {i \in DOMAIN before[f].lines : filenames[f].lines[i] # before[f].lines[i]}

\* C23: every onLineUpdate for a line newly adopted into a file seen before
\* carries the line number, one more than the array index adopted, and
\* every onLineUpdate for a stored line whose class or counts changed
\* carries the array index, one less than the line number; each adopted
\* index and each changed index is reported so.
C23_LineIndex ==
    /\ \A k \in 1..Len(events) :
          events[k].type = "onLineUpdate" =>
              \/ /\ (events[k].line - 1) \in AdoptedIndexes(events[k].filename)
                 /\ events[k].line \notin ChangedIndexes(events[k].filename)
              \/ /\ events[k].line \in ChangedIndexes(events[k].filename)
                 /\ (events[k].line - 1) \notin AdoptedIndexes(events[k].filename)
    /\ \A f \in DOMAIN before :
          /\ \A i \in AdoptedIndexes(f) :
                \E k \in EventsOf("onLineUpdate", f) :
                    events[k].line = i + 1 /\ events[k].site = "adopt"
          /\ \A i \in ChangedIndexes(f) :
                \E k \in EventsOf("onLineUpdate", f) :
                    events[k].line = i /\ events[k].site = "change"

\* C23 happens: one call changed the stored line 1 of file a and adopted its
\* line 4; the first is reported as 0 and the second as 4.
C23_BothSites ==
    /\ \E k \in 1..Len(events) :
          events[k] = Event("onLineUpdate", "a", 0, "change")
    /\ \E k \in 1..Len(events) :
          events[k] = Event("onLineUpdate", "a", 4, "adopt")
    /\ 0 \in ChangedIndexes("a")
    /\ 3 \in AdoptedIndexes("a")

\* the last instruction of the script analysed is a conditional branch
ConditionalLast ==
    /\ rscript.opcodes # <<>>
    /\ rscript.opcodes[Len(rscript.opcodes)].assembly.op \in conditionals

\* C24: when the last instruction of a script is a conditional branch (try
\* without a target included), checkReachability returns without raising,
\* and if the conditional can be reached from position 0 it is marked
\* reachable together with its branch target, when it has one.
C24_ConditionalLast ==
    (rpc = "done" /\ ConditionalLast) =>
        /\ ~rscript.err
        /\ (Len(rscript.opcodes) - 1) \in GraphReach(rscript.opcodes) =>
              /\ rscript.opcodes[Len(rscript.opcodes)].reachable
              /\ \A j \in Successors(rscript.opcodes, Len(rscript.opcodes) - 1) :
                    rscript.opcodes[j + 1].reachable

-----------------------------------------------------------------------------
(* Properties of a parseData call that raises *)

\* C25: a parseData call that raises has left every stored snapshot, lines
\* and tallies, as it was before the call and has emitted no event.
C25_AllOrNothing ==
    (trace # <<>> /\ threw) => (filenames = before /\ events = <<>>)

-----------------------------------------------------------------------------
(* Properties of a dispatch during which the listeners change *)

\* C26: each event of a parseData call is handled, in registration order
\* and once each, by the observers that were registered when its dispatch
\* started and implement its handler, also when a handler registers or
\* unregisters an observer during the dispatch.
C26_DeliveryUnderMutation ==
    \A k \in 1..Len(events) :
        HandledBy(events[k]) = Receivers(audience[k], events[k].type)

=============================================================================
